---- MODULE Spec2Model ----
(***************************************************************************)
(* A model of mcp-pandoc-tools (src/mcp.mjs): an HTTP gateway that proxies *)
(* document conversions to a pandoc backend, keeps the outputs in a small  *)
(* in-memory index backed by files under /tmp/exports, serves them on      *)
(* /download/:id, reaps them on a timer and announces its tools on /sse.   *)
(*                                                                         *)
(* Node runs every callback to completion, so one action is one callback:  *)
(* the part of a handler between two suspension points (await, timer,      *)
(* stream open).  The file system is reached synchronously (writeFileSync, *)
(* unlinkSync) except for the read stream of a download, whose open is     *)
(* asynchronous.                                                           *)
(***************************************************************************)
EXTENDS Integers, Sequences, FiniteSets, TLC

(* ------------------------------ bounds -------------------------------- *)
MaxReqs  == 2   \* requests the server receives in one run
MaxConns == 3   \* /sse connections opened in one run
MaxPings == 2   \* keep-alives recorded per connection
MaxTime  == 4   \* clock quanta the run lasts

(* ------------------------- program constants -------------------------- *)
RETENTION   == 15 * 60 * 1000   \* age beyond which the reaper deletes
REAP_PERIOD == 5 * 60 * 1000    \* period of the cleanup interval
Quantum     == REAP_PERIOD      \* granularity of the modelled clock
TMP_DIR     == "/tmp/exports"

PDF_MIME  == "application/pdf"
DOCX_MIME == "application/vnd.openxmlformats-officedocument.wordprocessingml.document"

Reqs  == 1..MaxReqs
Conns == 1..MaxConns

(* ------------------------------ inputs -------------------------------- *)
\* JSON values a client may send where a string is expected.  A value is
\* the pair of what typeof and .length give for it.
Str(n)  == [type |-> "string", length |-> n]
Absent  == [type |-> "undefined", length |-> 0]
Arr(n)  == [type |-> "object", length |-> n]
Contents == {Str(4), Str(0), Arr(1)}

InputFormats  == {"markdown", "html", "rst"}
OutputFormats == {"pdf", "docx", "epub"}
ToolNames     == {"convert_to_pdf", "convert_to_docx", "convert_to_epub", "undefined"}

\* What the backend may answer.
BackendStatuses == {200, 503}
BackendTexts    == {"boom"}
Outputs         == {<<37>>, <<80, 75>>}         \* raw output bytes
UUIDs           == 1..(MaxReqs + 1)                   \* values randomUUID() hands out


(* ------------------------------- state -------------------------------- *)
VARIABLES
    PUBLIC_BASE_URL,  \* configuration read once at start ("" when unset)
    now,              \* Date.now(), in milliseconds
    reaperDue,        \* when the cleanup interval fires next
    files,            \* the index: id -> [path, mime, t]
    disk,             \* files under TMP_DIR: path -> bytes
    req,              \* the requests: inputs, position, response
    backendCalls,     \* outbound requests issued to the backend so far
    usedUuids,        \* values randomUUID() has handed out
    puts,             \* history: every files.set, with the bytes written
    conn,             \* /sse connections: state and what was written
    intervals,        \* live keep-alive intervals, by connection
    crashed,          \* the process died of an uncaught exception
    Server_tools,     \* lib/mcp-sdk Server.tools: name -> {schema, handler}
    answer            \* what Server.handleInvoke answered last

vars == <<PUBLIC_BASE_URL, now, reaperDue, files, disk, req, backendCalls,
          usedUuids, puts, conn, intervals, crashed, Server_tools, answer>>

(* ------------------------------ helpers ------------------------------- *)
NoId   == [h |-> <<0, 0>>, ext |-> "none"]
Err(m) == [msg |-> m, status |-> 0, text |-> ""]
NoErr  == Err("")
NoLink == [made |-> FALSE, base |-> "", id |-> NoId]

\* A request before the server has seen it.  parsed: readJSON gave a body;
\* fault: what went wrong around the backend call ("" when nothing did).
NewReq ==
    [kind |-> "new", pc |-> "new", parsed |-> FALSE, fault |-> "",
     name |-> "undefined", input_format |-> "undefined",
     output_format |-> "epub", content |-> Absent, id |-> NoId,
     upstream |-> 0, buf |-> <<>>,
     status |-> 0, ctype |-> "", error |-> NoErr, label |-> "",
     link |-> NoLink, body |-> <<>>]

\* ok(res, obj): 200 with a JSON body.
ok(q, label, link) ==
    [q EXCEPT !.pc = "done", !.status = 200, !.ctype = "application/json",
              !.label = label, !.link = link]

\* bad(res, code, msg): the status with a JSON body {error: msg}.
bad(q, code, e) ==
    [q EXCEPT !.pc = "done", !.status = code, !.ctype = "application/json",
              !.error = e]

\* randomUUID(): a value never handed out before.  Which one is of no
\* consequence, so the least is taken.
randomUUID == CHOOSE u \in UUIDs \ usedUuids : \A w \in UUIDs \ usedUuids : u <= w

\* fileId hashing the time alone.
fileIdTimeOnly(ext, uuid, t) == [h |-> <<0, t>>, ext |-> ext]

\* fileId(ext): a hash of randomUUID() + Date.now(), truncated, then the
\* extension.  The hash is kept as the pair it is computed from.
fileId(ext, uuid, t) == [h |-> <<uuid, t>>, ext |-> ext]

\* path.join(TMP_DIR, fname)
PathOf(fname) == [dir |-> TMP_DIR, name |-> fname]

\* MimeOf with the docx branch lost.
MimeOfOnlyPdf(output_format) == PDF_MIME

\* Validate with the type test of content lost.
ValidateNoTypeof(input_format, output_format, content) ==
    IF input_format \notin {"markdown", "html"}
        THEN "input_format must be 'markdown' or 'html'"
    ELSE IF output_format \notin {"pdf", "docx"}
        THEN "output_format must be 'pdf' or 'docx'"
    ELSE IF content.length = 0
        THEN "content must be a non-empty string"
    ELSE ""

\* The checks doExport makes before it calls the backend: "" when they pass.
Validate(input_format, output_format, content) ==
    IF input_format \notin {"markdown", "html"}
        THEN "input_format must be 'markdown' or 'html'"
    ELSE IF output_format \notin {"pdf", "docx"}
        THEN "output_format must be 'pdf' or 'docx'"
    ELSE IF content.type # "string" \/ content.length = 0
        THEN "content must be a non-empty string"
    ELSE ""

ExtOf(output_format)  == IF output_format = "docx" THEN "docx" ELSE "pdf"
MimeOf(output_format) == IF output_format = "docx" THEN DOCX_MIME ELSE PDF_MIME

\* resp.ok taken for "an answer arrived".
RespOkAnyStatus(status) == status >= 200

\* resp.ok
RespOk(status) == status >= 200 /\ status <= 299

\* The function f with key k set to v, and f without the keys in K.
Put(f, k, v)   == [x \in DOMAIN f \cup {k} |-> IF x = k THEN v ELSE f[x]]
Without(f, K)  == [x \in DOMAIN f \ K |-> f[x]]

\* The strict prefixes of b: what a failed write can leave behind.
Prefixes(b) == {SubSeq(b, 1, n) : n \in 0..(Len(b) - 1)}

\* The tool list announced on /sse.
inputSchema ==
    [type |-> "object",
     properties |-> [input_format |-> [type |-> "string", enum |-> {"markdown", "html"}],
                     content |-> [type |-> "string", enum |-> {}]],
     required |-> {"input_format", "content"}]

tools ==
    <<[name |-> "convert_to_pdf",
       description |-> "Convert markdown or HTML to PDF and return a download link.",
       inputSchema |-> inputSchema],
      [name |-> "convert_to_docx",
       description |-> "Convert markdown or HTML to DOCX and return a download link.",
       inputSchema |-> inputSchema]>>

\* What handleInvoke has answered when it has not been called yet.
NoAnswer == [name |-> "", status |-> 0, ran |-> "", error |-> ""]

(* ------------------------------- Init --------------------------------- *)
Init ==
    /\ PUBLIC_BASE_URL \in {"", "https://tools.example"}
    /\ now = 0
    /\ reaperDue = REAP_PERIOD
    /\ files = << >>
    /\ disk = << >>
    /\ req = [r \in Reqs |-> NewReq]
    /\ backendCalls = 0
    /\ usedUuids = {}
    /\ puts = {}
    /\ conn = [c \in Conns |-> [state |-> "none", log |-> << >>]]
    /\ intervals = {}
    /\ crashed = FALSE
    /\ Server_tools = << >>
    /\ answer = NoAnswer

StoreUnchanged == UNCHANGED <<files, disk, usedUuids, puts>>
SseUnchanged   == UNCHANGED <<conn, intervals>>
ClockUnchanged == UNCHANGED <<PUBLIC_BASE_URL, now, reaperDue>>
ServerUnchanged == UNCHANGED <<Server_tools, answer>>

(* --------------------------- request handlers ------------------------- *)
\* Request r reaches the server: requests are numbered as they arrive.
Arrives(r) == req[r].pc = "new" /\ \A s \in DOMAIN req : s < r => req[s].pc # "new"

\* GET /healthz
Healthz(r) ==
    /\ ~crashed /\ Arrives(r)
    /\ req' = [req EXCEPT ![r] = ok([@ EXCEPT !.kind = "healthz"], "health", NoLink)]
    /\ UNCHANGED backendCalls
    /\ StoreUnchanged /\ SseUnchanged /\ ClockUnchanged /\ ServerUnchanged /\ UNCHANGED crashed

\* Any request no route matches.
NotRouted(r) ==
    /\ ~crashed /\ Arrives(r)
    /\ req' = [req EXCEPT ![r] = bad([@ EXCEPT !.kind = "other"], 404, Err("not found"))]
    /\ UNCHANGED backendCalls
    /\ StoreUnchanged /\ SseUnchanged /\ ClockUnchanged /\ ServerUnchanged /\ UNCHANGED crashed

\* POST /invoke or /export whose body is not JSON: readJSON rejects and the
\* catch of the handler answers.
BadJson(r) ==
    /\ ~crashed /\ Arrives(r)
    /\ \E k \in {"invoke", "export"} :
        req' = [req EXCEPT ![r] =
                   bad([@ EXCEPT !.kind = k], 500, Err("Unexpected token"))]
    /\ UNCHANGED backendCalls
    /\ StoreUnchanged /\ SseUnchanged /\ ClockUnchanged /\ ServerUnchanged /\ UNCHANGED crashed

\* doExport up to its first await: the checks, then the fetch is issued.
\* A throw is caught by the handler, which answers 500 with the message.
doExportStart(q) ==
    LET v == Validate(q.input_format, q.output_format, q.content) IN
    IF v # "" THEN bad(q, 500, Err(v)) ELSE [q EXCEPT !.pc = "fetch"]

CallsAfter(q) == IF q.pc = "fetch" THEN backendCalls + 1 ELSE backendCalls

\* Registered matching on the prefix of the name.
RegisteredByPrefix(name) == name # "undefined"

\* The names POST /invoke has a branch for.
Registered(name) == name \in {"convert_to_pdf", "convert_to_docx"}

\* POST /invoke, from the parsed body on.  The arguments are read only in
\* the branch of a known tool.
Invoke(r) ==
    /\ ~crashed /\ Arrives(r)
    /\ \E name \in ToolNames :
        LET q == [req[r] EXCEPT !.kind = "invoke", !.parsed = TRUE, !.name = name] IN
        \/ /\ ~Registered(name)
           /\ req' = [req EXCEPT ![r] = bad(q, 404, Err("unknown tool"))]
           /\ UNCHANGED backendCalls
        \/ /\ Registered(name)
           /\ \E input_format \in InputFormats, content \in Contents :
                LET q2 == doExportStart(
                              [q EXCEPT !.input_format = input_format,
                                        !.content = content,
                                        !.output_format =
                                            IF name = "convert_to_pdf"
                                                THEN "pdf" ELSE "docx"])
                IN /\ req' = [req EXCEPT ![r] = q2]
                   /\ backendCalls' = CallsAfter(q2)
    /\ StoreUnchanged /\ SseUnchanged /\ ClockUnchanged /\ ServerUnchanged /\ UNCHANGED crashed

\* POST /export, from the parsed body on.
Export(r) ==
    /\ ~crashed /\ Arrives(r)
    /\ \E input_format \in InputFormats, output_format \in OutputFormats,
          content \in Contents :
        LET q == [req[r] EXCEPT !.kind = "export", !.parsed = TRUE,
                                !.input_format = input_format,
                                !.output_format = output_format, !.content = content]
            q2 == doExportStart(q)
        IN /\ req' = [req EXCEPT ![r] = q2]
           /\ backendCalls' = CallsAfter(q2)
    /\ StoreUnchanged /\ SseUnchanged /\ ClockUnchanged /\ ServerUnchanged /\ UNCHANGED crashed


\* FetchSettle with a retry: a rejected fetch is issued again.
FetchSettleRetries(r) ==
    /\ ~crashed /\ req[r].pc = "fetch"
    /\ \/ /\ backendCalls' = backendCalls + 1
          /\ UNCHANGED req
       \/ /\ \E s \in BackendStatuses :
                req' = [req EXCEPT ![r] = [@ EXCEPT !.pc = "body", !.upstream = s]]
          /\ UNCHANGED backendCalls
    /\ StoreUnchanged /\ SseUnchanged /\ ClockUnchanged /\ ServerUnchanged
    /\ UNCHANGED crashed

\* The fetch of doExport settles: it rejects (no connection, bad base
\* address), or resolves with the status line of the backend.
FetchSettle(r) ==
    /\ ~crashed /\ req[r].pc = "fetch"
    /\ \/ req' = [req EXCEPT ![r] =
                      bad([@ EXCEPT !.fault = "fetch"], 500, Err("fetch failed"))]
       \/ \E s \in BackendStatuses :
            req' = [req EXCEPT ![r] = [@ EXCEPT !.pc = "body", !.upstream = s]]
    /\ UNCHANGED backendCalls
    /\ StoreUnchanged /\ SseUnchanged /\ ClockUnchanged /\ ServerUnchanged /\ UNCHANGED crashed

\* A non-success status: the text of the answer is read ("" when that
\* fails) and doExport throws.
UpstreamError(r) ==
    /\ ~crashed /\ req[r].pc = "body" /\ ~RespOk(req[r].upstream)
    /\ \E text \in BackendTexts \cup {""} :
        req' = [req EXCEPT ![r] =
                   bad(@, 500, [msg |-> "pandoc error", status |-> req[r].upstream,
                                text |-> text])]
    /\ UNCHANGED backendCalls
    /\ StoreUnchanged /\ SseUnchanged /\ ClockUnchanged /\ ServerUnchanged /\ UNCHANGED crashed

\* A success status whose body cannot be read: arrayBuffer() rejects.
BodyFails(r) ==
    /\ ~crashed /\ req[r].pc = "body" /\ RespOk(req[r].upstream)
    /\ req' = [req EXCEPT ![r] =
                   bad([@ EXCEPT !.fault = "body"], 500, Err("terminated"))]
    /\ UNCHANGED backendCalls
    /\ StoreUnchanged /\ SseUnchanged /\ ClockUnchanged /\ ServerUnchanged /\ UNCHANGED crashed

\* The record doExport puts in the index.
Record(fpath, mime, t) == [path |-> fpath, mime |-> mime, t |-> t]

\* The link doExport returns.
LinkTo(fname) == [made |-> TRUE, base |-> PUBLIC_BASE_URL, id |-> fname]

\* The text the handlers put before the link.
LabelOf(q) ==
    IF q.kind = "export" THEN "link"
    ELSE IF q.name = "convert_to_pdf" THEN "PDF ready" ELSE "DOCX ready"

\* StoreAndAnswer answering before the put: the link is sent, the write and
\* the insert are left for later.
StoreAndAnswerEarly(r) ==
    /\ ~crashed /\ req[r].pc = "body" /\ RespOk(req[r].upstream)
    /\ \E buf \in Outputs :
        LET q     == [req[r] EXCEPT !.buf = buf]
            fname == fileId(ExtOf(q.output_format), randomUUID, now)
        IN /\ usedUuids' = usedUuids \cup {randomUUID}
           /\ req' = [req EXCEPT ![r] = ok(q, LabelOf(q), LinkTo(fname))]
    /\ UNCHANGED <<files, disk, puts, backendCalls>>
    /\ SseUnchanged /\ ClockUnchanged /\ ServerUnchanged /\ UNCHANGED crashed

\* The body arrives: the rest of doExport runs without suspending.  The
\* file is written, the record inserted, the link returned and answered.
StoreAndAnswer(r) ==
    /\ ~crashed /\ req[r].pc = "body" /\ RespOk(req[r].upstream)
    /\ \E buf \in Outputs :
        LET q     == [req[r] EXCEPT !.buf = buf]
            uuid  == randomUUID
            fname == fileId(ExtOf(q.output_format), uuid, now)
            fpath == PathOf(fname)
            mime  == MimeOf(q.output_format)
        IN /\ usedUuids' = usedUuids \cup {uuid}
           /\ disk' = Put(disk, fpath, buf)
           /\ files' = Put(files, fname, Record(fpath, mime, now))
           /\ puts' = puts \cup {[id |-> fname, t |-> now, bytes |-> buf,
                                  mime |-> mime, by |-> r]}
           /\ req' = [req EXCEPT ![r] = ok(q, LabelOf(q), LinkTo(fname))]
    /\ UNCHANGED backendCalls
    /\ SseUnchanged /\ ClockUnchanged /\ ServerUnchanged /\ UNCHANGED crashed

\* WriteFails with the record inserted before the write.
WriteFailsAfterInsert(r) ==
    /\ ~crashed /\ req[r].pc = "body" /\ RespOk(req[r].upstream)
    /\ \E buf \in Outputs :
        LET q     == [req[r] EXCEPT !.buf = buf, !.fault = "write"]
            fname == fileId(ExtOf(q.output_format), randomUUID, now)
            fpath == PathOf(fname)
            mime  == MimeOf(q.output_format)
        IN /\ usedUuids' = usedUuids \cup {randomUUID}
           /\ files' = Put(files, fname, Record(fpath, mime, now))
           /\ puts' = puts \cup {[id |-> fname, t |-> now, bytes |-> buf,
                                  mime |-> mime, by |-> r]}
           /\ \/ disk' = disk
              \/ \E part \in Prefixes(buf) : disk' = Put(disk, fpath, part)
           /\ req' = [req EXCEPT ![r] = bad(q, 500, Err("ENOSPC"))]
    /\ UNCHANGED backendCalls
    /\ SseUnchanged /\ ClockUnchanged /\ ServerUnchanged /\ UNCHANGED crashed

\* The body arrives but writeFileSync throws (disk full, directory gone):
\* nothing or a truncated file is left, the record is not inserted.
WriteFails(r) ==
    /\ ~crashed /\ req[r].pc = "body" /\ RespOk(req[r].upstream)
    /\ \E buf \in Outputs :
        LET q     == [req[r] EXCEPT !.buf = buf, !.fault = "write"]
            uuid  == randomUUID
            fpath == PathOf(fileId(ExtOf(q.output_format), uuid, now))
        IN /\ usedUuids' = usedUuids \cup {uuid}
           /\ \/ disk' = disk
              \/ \E part \in Prefixes(buf) : disk' = Put(disk, fpath, part)
           /\ req' = [req EXCEPT ![r] = bad(q, 500, Err("ENOSPC"))]
    /\ UNCHANGED <<files, puts, backendCalls>>
    /\ SseUnchanged /\ ClockUnchanged /\ ServerUnchanged /\ UNCHANGED crashed

(* ------------------------------ download ------------------------------ *)
\* The ids a client may ask for: one of a link, or one never issued.
Askable == {p.id : p \in puts} \cup {NoId}

\* Download looking the record up under the wrong key: it never finds one.
DownloadNeverFinds(r) ==
    /\ ~crashed /\ Arrives(r)
    /\ \E id \in Askable :
        req' = [req EXCEPT ![r] =
                   bad([@ EXCEPT !.kind = "download", !.id = id],
                       404, Err("not found"))]
    /\ UNCHANGED backendCalls
    /\ StoreUnchanged /\ SseUnchanged /\ ClockUnchanged /\ ServerUnchanged /\ UNCHANGED crashed

\* GET /download/:id up to the creation of the read stream.
Download(r) ==
    /\ ~crashed /\ Arrives(r)
    /\ \E id \in Askable :
        LET q == [req[r] EXCEPT !.kind = "download", !.id = id] IN
        req' = [req EXCEPT ![r] =
                   IF id \notin DOMAIN files
                       THEN bad(q, 404, Err("not found"))
                       ELSE [q EXCEPT !.pc = "open", !.status = 200,
                                      !.ctype = files[id].mime]]
    /\ UNCHANGED backendCalls
    /\ StoreUnchanged /\ SseUnchanged /\ ClockUnchanged /\ ServerUnchanged /\ UNCHANGED crashed

\* StreamServes as a one-shot link: the artifact is deleted once served.
StreamServesOnce(r) ==
    /\ ~crashed /\ req[r].pc = "open"
    /\ PathOf(req[r].id) \in DOMAIN disk
    /\ req' = [req EXCEPT ![r] = [@ EXCEPT !.pc = "done",
                                            !.body = disk[PathOf(req[r].id)]]]
    /\ disk' = Without(disk, {PathOf(req[r].id)})
    /\ files' = Without(files, {req[r].id})
    /\ UNCHANGED <<backendCalls, usedUuids, puts, crashed>>
    /\ SseUnchanged /\ ClockUnchanged /\ ServerUnchanged

\* The read stream opens its file and pipes it into the response.  An open
\* file outlives its unlink, so the whole content is served.
StreamServes(r) ==
    /\ ~crashed /\ req[r].pc = "open"
    /\ PathOf(req[r].id) \in DOMAIN disk
    /\ req' = [req EXCEPT ![r] = [@ EXCEPT !.pc = "done",
                                            !.body = disk[PathOf(req[r].id)]]]
    /\ UNCHANGED backendCalls
    /\ StoreUnchanged /\ SseUnchanged /\ ClockUnchanged /\ ServerUnchanged /\ UNCHANGED crashed

\* The file is gone when the stream opens it: the stream emits an error no
\* one listens to, which ends the process.  The headers were sent already.
StreamFails(r) ==
    /\ ~crashed /\ req[r].pc = "open"
    /\ PathOf(req[r].id) \notin DOMAIN disk
    /\ req' = [req EXCEPT ![r] = [@ EXCEPT !.pc = "aborted"]]
    /\ crashed' = TRUE
    /\ UNCHANGED backendCalls
    /\ StoreUnchanged /\ SseUnchanged /\ ClockUnchanged /\ ServerUnchanged

(* ------------------------------- reaper ------------------------------- *)
\* Expired with the comparison off by one.
ExpiredAtWindow(t) == {k \in DOMAIN files : t - files[k].t >= RETENTION}

\* The entries one run of the cleanup interval deletes.
Expired(t) == {k \in DOMAIN files : t - files[k].t > RETENTION}

\* deleteEntry without the try around the unlink: a throw skips the delete.
deleteEntryUnguarded(st, k, unlinkThrows) ==
    IF unlinkThrows \/ k \notin DOMAIN st.files THEN st
    ELSE [files |-> Without(st.files, {k}),
          disk  |-> Without(st.disk, {st.files[k].path})]

\* The deletion of one entry (line 96), applied to the store st = [files,
\* disk]: try { unlinkSync(v.path) } catch {} files.delete(k).  For a key
\* the index does not hold the try throws and is caught as well.
deleteEntry(st, k, unlinkThrows) ==
    [files |-> Without(st.files, {k}),
     disk  |-> IF k \in DOMAIN st.files /\ ~unlinkThrows
                   THEN Without(st.disk, {st.files[k].path})
                   ELSE st.disk]

\* The loop of the cleanup interval over the expired entries ks; the
\* unlink throws for those in failing.
RECURSIVE cleanup(_, _, _)
cleanup(st, ks, failing) ==
    IF ks = {} THEN st
    ELSE LET k == CHOOSE x \in ks : TRUE
         IN cleanup(deleteEntry(st, k, k \in failing), ks \ {k}, failing)

\* One run of the cleanup interval.
Reap ==
    /\ ~crashed /\ now >= reaperDue
    /\ \E failing \in SUBSET Expired(now) :
        LET st == cleanup([files |-> files, disk |-> disk], Expired(now), failing)
        IN files' = st.files /\ disk' = st.disk
    /\ reaperDue' = reaperDue + REAP_PERIOD
    /\ UNCHANGED <<PUBLIC_BASE_URL, now, req, backendCalls, usedUuids, puts, crashed>>
    /\ SseUnchanged /\ ServerUnchanged

\* Time passes.  A timer that is due runs before the clock moves on.
Tick ==
    /\ ~crashed /\ now < reaperDue
    /\ now + Quantum <= MaxTime * Quantum
    /\ now' = now + Quantum
    /\ UNCHANGED <<PUBLIC_BASE_URL, reaperDue, req, backendCalls, crashed>>
    /\ StoreUnchanged /\ SseUnchanged /\ ServerUnchanged

(* -------------------------------- /sse -------------------------------- *)
ToolsEvent == [event |-> "tools", data |-> tools]
Ping       == [event |-> "comment", data |-> << >>]

Pings(c) == Len(SelectSeq(conn[c].log, LAMBDA m : m = Ping))

\* SseOpen without the announcement.
SseOpenSilent(c) ==
    /\ ~crashed /\ conn[c].state = "none"
    /\ conn' = [conn EXCEPT ![c] = [state |-> "open", log |-> << >>]]
    /\ intervals' = intervals \cup {c}
    /\ UNCHANGED <<req, backendCalls, crashed>>
    /\ StoreUnchanged /\ ClockUnchanged /\ ServerUnchanged

\* GET /sse: the headers, the tools event, the keep-alive interval and the
\* close listener.
SseOpen(c) ==
    /\ ~crashed /\ conn[c].state = "none"
    /\ conn' = [conn EXCEPT ![c] = [state |-> "open", log |-> <<ToolsEvent>>]]
    /\ intervals' = intervals \cup {c}
    /\ UNCHANGED <<req, backendCalls, crashed>>
    /\ StoreUnchanged /\ ClockUnchanged /\ ServerUnchanged

\* The keep-alive interval of connection c fires.
KeepAlive(c) ==
    /\ ~crashed /\ c \in intervals
    /\ Pings(c) < MaxPings
    /\ conn' = [conn EXCEPT ![c].log = Append(@, Ping)]
    /\ UNCHANGED <<intervals, req, backendCalls, crashed>>
    /\ StoreUnchanged /\ ClockUnchanged /\ ServerUnchanged

\* SseClose without the clearInterval.
SseCloseLeaks(c) ==
    /\ ~crashed /\ conn[c].state = "open"
    /\ conn' = [conn EXCEPT ![c].state = "closed"]
    /\ UNCHANGED <<intervals, req, backendCalls, crashed>>
    /\ StoreUnchanged /\ ClockUnchanged /\ ServerUnchanged

\* The peer closes connection c: the close listener clears its interval.
SseClose(c) ==
    /\ ~crashed /\ conn[c].state = "open"
    /\ conn' = [conn EXCEPT ![c].state = "closed"]
    /\ intervals' = intervals \ {c}
    /\ UNCHANGED <<req, backendCalls, crashed>>
    /\ StoreUnchanged /\ ClockUnchanged /\ ServerUnchanged

(* ------------------------ lib/mcp-sdk: Server ------------------------- *)
\* The names, schemas and handlers the registry is exercised with.  A
\* schema is given as a string (the name) or as an object with a name.
RegNames    == {"convert_to_pdf", "convert_to_docx"}
Handlers    == {"h1", "h2"}
SchemaForms == {"string", "object"}

\* typeof schema === "object" ? schema : { name: schema }
ToolOf(form, name) ==
    [name |-> name, description |-> IF form = "object" THEN "given" ELSE ""]

\* Server.tool(schema, handler): tools.set, whatever the map holds.
Server_tool(form, name, handler) ==
    /\ Server_tools' = Put(Server_tools, name,
                           [schema |-> ToolOf(form, name), handler |-> handler])
    /\ UNCHANGED <<answer, req, backendCalls, crashed>>
    /\ StoreUnchanged /\ SseUnchanged /\ ClockUnchanged

\* Server.handleInvoke(req, res): 404 for a name the map does not hold;
\* otherwise the handler runs and its result, or its throw, is answered.
Server_handleInvoke(name, throws) ==
    /\ answer' =
         IF name \notin DOMAIN Server_tools
             THEN [name |-> name, status |-> 404, ran |-> "",
                   error |-> "tool not found"]
         ELSE IF throws
             THEN [name |-> name, status |-> 500,
                   ran |-> Server_tools[name].handler, error |-> "thrown"]
         ELSE [name |-> name, status |-> 200,
               ran |-> Server_tools[name].handler, error |-> ""]
    /\ UNCHANGED <<Server_tools, req, backendCalls, crashed>>
    /\ StoreUnchanged /\ SseUnchanged /\ ClockUnchanged

(* ---------------------------- specification --------------------------- *)
\* The HTTP requests, the reaper and the clock.
NextStore ==
    \/ \E r \in Reqs :
        \/ Healthz(r) \/ NotRouted(r) \/ BadJson(r)
        \/ Invoke(r) \/ Export(r)
        \/ FetchSettle(r) \/ UpstreamError(r) \/ BodyFails(r)
        \/ StoreAndAnswer(r) \/ WriteFails(r)
        \/ Download(r) \/ StreamServes(r) \/ StreamFails(r)
    \/ Reap
    \/ Tick

\* The /sse connections, which share no state with the rest.
NextSse == \E c \in Conns : SseOpen(c) \/ KeepAlive(c) \/ SseClose(c)

\* The registry of lib/mcp-sdk, which mcp.mjs does not use.
NextServer ==
    \/ \E form \in SchemaForms, name \in RegNames, handler \in Handlers :
            Server_tool(form, name, handler)
    \/ \E name \in RegNames \cup {"undefined"}, throws \in BOOLEAN :
            Server_handleInvoke(name, throws)

Next == NextStore \/ NextSse \/ NextServer

\* The invocations, the downloads, the reaper and the clock, with one
\* request more than Reqs: one to make an artifact, one to download it and
\* one in flight meanwhile.
LiveReqs == 1..(MaxReqs + 1)

InitLive ==
    /\ PUBLIC_BASE_URL = "https://tools.example"
    /\ now = 0
    /\ reaperDue = REAP_PERIOD
    /\ files = << >>
    /\ disk = << >>
    /\ req = [r \in LiveReqs |-> NewReq]
    /\ backendCalls = 0
    /\ usedUuids = {}
    /\ puts = {}
    /\ conn = [c \in Conns |-> [state |-> "none", log |-> << >>]]
    /\ intervals = {}
    /\ crashed = FALSE
    /\ Server_tools = << >>
    /\ answer = NoAnswer

\* The inputs of these runs: one known tool with valid arguments, one
\* unknown tool, one output, one error text.
LiveInputs ==
    \A r \in DOMAIN req :
        /\ req[r].name \in {NewReq.name, "convert_to_pdf", "convert_to_epub"}
        /\ req[r].input_format \in {NewReq.input_format, "markdown"}
        /\ req[r].content \in {NewReq.content, Str(4)}
        /\ req[r].buf \in {NewReq.buf, <<37>>}
        /\ req[r].error.msg = "pandoc error" => req[r].error.text = "boom"

NextLive ==
    \/ \E r \in LiveReqs :
        \/ Invoke(r) /\ LiveInputs'
        \/ FetchSettle(r)
        \/ UpstreamError(r) /\ LiveInputs'
        \/ BodyFails(r)
        \/ StoreAndAnswer(r) /\ LiveInputs'
        \/ WriteFails(r) /\ LiveInputs'
        \/ Download(r) \/ StreamServes(r) \/ StreamFails(r)
    \/ Reap
    \/ Tick

\* Every callback that is ready runs: the fetch settles (the runtime ends a
\* call the backend does not answer), the continuation of doExport runs
\* when the body is in, a stream opens its file, the interval fires and
\* time passes.
Fairness ==
    /\ \A r \in LiveReqs :
        /\ WF_vars(FetchSettle(r))
        /\ WF_vars(UpstreamError(r))
        /\ WF_vars(BodyFails(r) \/ StoreAndAnswer(r) \/ WriteFails(r))
        /\ WF_vars(StreamServes(r) \/ StreamFails(r))
    /\ WF_vars(Reap)
    /\ WF_vars(Tick)

Spec      == Init /\ [][Next]_vars
SpecLive  == InitLive /\ [][NextLive]_vars /\ Fairness
SpecStore == Init /\ [][NextStore]_vars
SpecSse   == Init /\ [][NextSse]_vars
SpecServer == Init /\ [][NextServer]_vars


(* ------------------------------- claims ------------------------------- *)
\* A request that reached doExport.
Invocation(q) ==
    /\ q.parsed
    /\ \/ q.kind = "export"
       \/ q.kind = "invoke" /\ q.name \in {"convert_to_pdf", "convert_to_docx"}

ValidInputs(q) ==
    /\ q.input_format \in {"markdown", "html"}
    /\ q.output_format \in {"pdf", "docx"}
    /\ q.content.type = "string" /\ q.content.length > 0

ValidationMessages ==
    {"input_format must be 'markdown' or 'html'",
     "output_format must be 'pdf' or 'docx'",
     "content must be a non-empty string"}

Succeeded(q) == Invocation(q) /\ q.pc = "done" /\ q.status = 200

\* The content type the output format fixes.
TypeFor(output_format) ==
    CASE output_format = "pdf"  -> "application/pdf"
      [] output_format = "docx" ->
            "application/vnd.openxmlformats-officedocument.wordprocessingml.document"
      [] OTHER -> "none"

\* The requests that passed the checks of doExport.
PassedValidation ==
    {r \in Reqs : Invocation(req[r]) /\ ValidInputs(req[r])}

\* C1: an invocation with valid inputs that the backend answered with
\* success returns a link; as long as the reaper has not removed the id of
\* the link, the index holds the bytes the backend produced and the type of
\* the output format under it, and every download of that id that read the
\* file served exactly those bytes with that content type, never a 404.
C1_RoundTrip ==
    \A r \in Reqs :
        Succeeded(req[r]) =>
            LET id == req[r].link.id IN
            /\ ValidInputs(req[r])
            /\ req[r].link.made
            /\ id \in DOMAIN files =>
                /\ files[id].path \in DOMAIN disk
                /\ disk[files[id].path] = req[r].buf
                /\ files[id].mime = TypeFor(req[r].output_format)
            /\ \A d \in Reqs :
                (req[d].kind = "download" /\ req[d].id = id) =>
                    /\ req[d].status = 404 => id \notin DOMAIN files
                    /\ req[d].status = 200 =>
                          req[d].ctype = TypeFor(req[r].output_format)
                    /\ req[d].pc = "done" /\ req[d].status = 200 =>
                          req[d].body = req[r].buf

C1_Witness ==
    \E r, d \in Reqs :
        /\ Succeeded(req[r]) /\ req[r].output_format = "docx"
        /\ req[d].kind = "download" /\ req[d].id = req[r].link.id
        /\ req[d].pc = "done" /\ req[d].status = 200
        /\ req[d].body = req[r].buf /\ req[d].body # << >>

\* C2: an invocation whose input_format, output_format or content is out of
\* contract is answered with the validation message, never reaches the
\* backend (the outbound requests are exactly those of the invocations that
\* passed the checks) and puts nothing in the store.
C2_ValidationFailsFast ==
    /\ backendCalls = Cardinality(PassedValidation)
    /\ \A r \in Reqs :
        (Invocation(req[r]) /\ ~ValidInputs(req[r])) =>
            /\ req[r].pc = "done"
            /\ req[r].status >= 400
            /\ req[r].error.msg \in ValidationMessages
            /\ ~req[r].link.made
            /\ req[r].upstream = 0 /\ req[r].fault = ""
            /\ \A p \in puts : p.by # r

C2_Witness ==
    \E r, s \in Reqs :
        /\ Invocation(req[r]) /\ req[r].content = Arr(1)
        /\ req[r].input_format = "html" /\ req[r].pc = "done"
        /\ Invocation(req[s]) /\ req[s].output_format = "epub"
        /\ req[s].pc = "done"

\* C3: an invoke whose name is not a registered tool is answered 404
\* "unknown tool" in the step that receives it; no handler runs, so the
\* backend is not called and the store is left as it was.
C3_UnknownToolState ==
    \A r \in Reqs :
        (req[r].kind = "invoke" /\ req[r].parsed
            /\ req[r].name \notin {"convert_to_pdf", "convert_to_docx"}) =>
            /\ req[r].pc = "done" /\ req[r].status = 404
            /\ req[r].error.msg = "unknown tool"
            /\ ~req[r].link.made
            /\ req[r].upstream = 0 /\ req[r].fault = ""
            /\ \A p \in puts : p.by # r

C3_UnknownToolStep ==
    \A r \in Reqs :
        (req[r].pc = "new" /\ req'[r].kind = "invoke" /\ req'[r].parsed
            /\ req'[r].name \notin {"convert_to_pdf", "convert_to_docx"}) =>
            UNCHANGED <<files, disk, puts, backendCalls>>

C3_UnknownTool == []C3_UnknownToolState /\ [][C3_UnknownToolStep]_vars

C3_Witness ==
    \E r, s \in Reqs :
        /\ req[r].kind = "invoke" /\ req[r].name = "undefined" /\ req[r].pc = "done"
        /\ req[s].kind = "invoke" /\ req[s].name = "convert_to_epub"
        /\ req[s].pc = "done"

\* C4: an artifact whose age does not exceed the retention window is in
\* the index with its bytes on disk, since no run of the reaper removes
\* it; a run of the reaper leaves no artifact whose age exceeds the window,
\* and a download that arrives for an id that is not in the index is
\* answered 404.  Downloads in between change neither.
C4_RetainedInWindow ==
    \A a \in puts :
        now - a.t <= RETENTION =>
            /\ a.id \in DOMAIN files
            /\ files[a.id].path \in DOMAIN disk
            /\ disk[files[a.id].path] = a.bytes

C4_ReapedAfterWindow ==
    reaperDue' # reaperDue =>
        \A a \in puts : now - a.t > RETENTION => a.id \notin DOMAIN files'

C4_AbsentIsNotFound ==
    \A r \in Reqs :
        (req[r].pc = "new" /\ req'[r].kind = "download"
            /\ req'[r].id \notin DOMAIN files) =>
            req'[r].pc = "done" /\ req'[r].status = 404

C4_Expiry ==
    /\ []C4_RetainedInWindow
    /\ [][C4_ReapedAfterWindow /\ C4_AbsentIsNotFound]_vars

C4_Witness ==
    \E a \in puts : \E d, e \in Reqs :
        /\ now - a.t > RETENTION /\ a.id \notin DOMAIN files
        /\ req[d].kind = "download" /\ req[d].id = a.id
        /\ req[d].pc = "done" /\ req[d].status = 200
        /\ req[e].kind = "invoke" /\ Succeeded(req[e])


\* C5: a download that found the index entry never comes to open a file
\* the reaper has removed: it serves the whole content or answers 404.
C5_NoTornRead ==
    \A r \in Reqs :
        req[r].kind = "download" =>
            /\ req[r].pc = "open" => PathOf(req[r].id) \in DOMAIN disk
            /\ req[r].pc # "aborted"

\* C6: without PUBLIC_BASE_URL no invocation is answered with a link; each
\* fails with a configuration error.
C6_NoLinkWithoutBase ==
    PUBLIC_BASE_URL = "" =>
        \A r \in Reqs :
            (Invocation(req[r]) /\ req[r].pc = "done") =>
                /\ ~req[r].link.made
                /\ req[r].status >= 400 /\ req[r].error # NoErr

\* C7: a failed request is answered with a JSON body {error} and the
\* status of its kind: 400 validation, 404 unknown tool or absent artifact,
\* 500 or 502 upstream or internal.
StatusesFor(e) ==
    IF e.msg \in ValidationMessages THEN {400}
    ELSE IF e.msg \in {"unknown tool", "not found"} THEN {404}
    ELSE IF e.msg = "Unexpected token" THEN {400, 500}
    ELSE {500, 502}

C7_StatusReflectsKind ==
    \A r \in Reqs :
        (req[r].pc = "done" /\ req[r].error # NoErr) =>
            /\ req[r].ctype = "application/json"
            /\ req[r].status \in StatusesFor(req[r].error)

\* C8: an invocation whose backend call ended in a non-success status or a
\* transport failure, or whose write failed, is answered with an error that
\* carries the backend status and text when there is one, never with a
\* link; the step that answers it leaves the index as it was.
BackendRefused(q) == q.upstream # 0 /\ ~(q.upstream >= 200 /\ q.upstream <= 299)

C8_FailureState ==
    \A r \in Reqs :
        (req[r].fault # "" \/ BackendRefused(req[r])) =>
            /\ Invocation(req[r])
            /\ ~req[r].link.made /\ req[r].status # 200
            /\ \A p \in puts : p.by # r
            /\ req[r].fault # "" => req[r].pc = "done"
            /\ req[r].pc = "done" =>
                /\ req[r].status >= 500 /\ req[r].error.msg # ""
                /\ req[r].ctype = "application/json"
                /\ BackendRefused(req[r]) =>
                    /\ req[r].error.status = req[r].upstream
                    /\ req[r].error.text \in BackendTexts \cup {""}

C8_FailureStep ==
    \A r \in Reqs :
        (req[r].pc \in {"fetch", "body"} /\ req'[r].pc = "done"
            /\ req'[r].status # 200) => files' = files

C8_FailurePropagates == []C8_FailureState /\ [][C8_FailureStep]_vars

C8_Witness ==
    \E r, s \in Reqs :
        /\ req[r].upstream = 503 /\ req[r].pc = "done"
        /\ req[r].error.text = "boom"
        /\ req[s].fault = "write" /\ req[s].pc = "done"
        /\ \E f \in DOMAIN disk : disk[f] # req[s].buf

\* C9: the live keep-alive intervals are those of the open connections; a
\* close clears the interval of its connection and of no other, and
\* nothing is written to a connection once it is closed.
C9_TimersMatchOpen == intervals = {c \in Conns : conn[c].state = "open"}

C9_CloseStep ==
    \A c \in Conns :
        /\ (conn[c].state = "open" /\ conn'[c].state = "closed") =>
               intervals' = intervals \ {c}
        /\ conn[c].state = "closed" => conn'[c] = conn[c]

C9_KeepAliveCancelled == []C9_TimersMatchOpen /\ [][C9_CloseStep]_vars

C9_Witness ==
    \E c, d \in Conns :
        /\ conn[c].state = "closed" /\ Pings(c) = 0
        /\ conn[d].state = "open" /\ Pings(d) = MaxPings
        /\ intervals = {d}

\* C10: no step of a download changes the index or the files, whether the
\* id is present or not.
C10_DownloadStep ==
    \A r \in Reqs :
        (req'[r] # req[r] /\ req'[r].kind = "download") =>
            UNCHANGED <<files, disk>>

C10_DownloadIsPureRead == [][C10_DownloadStep]_vars

C10_Witness ==
    \E d \in Reqs :
        /\ req[d].kind = "download" /\ req[d].pc = "done" /\ req[d].status = 200
        /\ req[d].id \in DOMAIN files
        /\ disk[files[req[d].id].path] = req[d].body


\* C11 (as claimed): a download that arrives for an id that is not in the
\* store, or whose artifact is older than the retention window at that
\* time, is answered 404.
C11_ExpiredStep ==
    \A r \in Reqs :
        (req[r].pc = "new" /\ req'[r].kind = "download") =>
            LET id == req'[r].id IN
            (\/ id \notin DOMAIN files
             \/ \E a \in puts : a.id = id /\ now - a.t > RETENTION)
                => req'[r].status = 404

C11_NotFoundWhenExpired == [][C11_ExpiredStep]_vars

\* C11 (amended): a download is answered 404 exactly when its id is not in
\* the index at that time, which holds of every artifact a run of the
\* reaper has removed; an artifact older than the window that no run has
\* removed yet is still answered 200 with its content type.
C11_AbsentStep ==
    \A r \in Reqs :
        (req[r].pc = "new" /\ req'[r].kind = "download") =>
            /\ req'[r].status = 404 <=> req'[r].id \notin DOMAIN files
            /\ req'[r].status # 404 =>
                /\ req'[r].status = 200
                /\ req'[r].ctype = files[req'[r].id].mime

C11_NotFoundIffAbsent == [][C11_AbsentStep]_vars

C11_Witness ==
    \E a \in puts : \E d \in Reqs :
        /\ now - a.t > RETENTION /\ a.id \in DOMAIN files
        /\ req[d].kind = "download" /\ req[d].id = a.id
        /\ req[d].pc = "open" /\ req[d].status = 200


\* C12: deleting an id leaves the store without it, whether the id is in
\* the index, was deleted already or never existed, and whether or not the
\* unlink throws; a second deletion changes nothing; no other entry is
\* touched.  A run of the reaper removes every expired entry even when the
\* unlink of its file throws, and the process survives it.
C12_DeleteState ==
    \A k \in Askable : \A f1, f2 \in BOOLEAN :
        LET st == [files |-> files, disk |-> disk]
            s1 == deleteEntry(st, k, f1)
            s2 == deleteEntry(s1, k, f2)
        IN /\ k \notin DOMAIN s1.files
           /\ s2 = s1
           /\ \A j \in DOMAIN files \ {k} :
                j \in DOMAIN s1.files /\ s1.files[j] = files[j]

C12_ReapStep ==
    reaperDue' # reaperDue =>
        /\ \A k \in DOMAIN files :
            now - files[k].t > RETENTION => k \notin DOMAIN files'
        /\ ~crashed'

C12_DeleteIdempotent == []C12_DeleteState /\ [][C12_ReapStep]_vars

C12_Witness ==
    \E a \in puts :
        /\ a.id \notin DOMAIN files
        /\ PathOf(a.id) \in DOMAIN disk


\* C13: registering a name that is registered already leaves the existing
\* descriptor and handler in place (and fails); resolving a name runs the
\* handler registered under it, or answers the unknown-tool error when
\* there is none.
C13_DuplicateStep ==
    \A n \in DOMAIN Server_tools :
        n \in DOMAIN Server_tools' /\ Server_tools'[n] = Server_tools[n]

C13_ResolveStep ==
    answer' # answer =>
        IF answer'.name \in DOMAIN Server_tools
            THEN answer'.ran = Server_tools[answer'.name].handler
            ELSE answer'.status = 404 /\ answer'.ran = ""

C13_Registry == [][C13_DuplicateStep /\ C13_ResolveStep]_vars


\* C14: what a connection has been sent starts with one tools event that
\* lists both tools with description and input contract; all that follows
\* are keep-alive comments; nothing is sent before the connection opens.
C14_AnnounceFirst ==
    \A c \in Conns :
        LET log == conn[c].log IN
        /\ conn[c].state = "none" => log = << >>
        /\ conn[c].state # "none" =>
            /\ Len(log) >= 1
            /\ log[1].event = "tools"
            /\ Len(log[1].data) = 2
            /\ {log[1].data[i].name : i \in 1..2} =
                   {"convert_to_pdf", "convert_to_docx"}
            /\ \A i \in 1..2 :
                /\ log[1].data[i].description # ""
                /\ log[1].data[i].inputSchema.required = {"input_format", "content"}
                /\ log[1].data[i].inputSchema.properties.input_format.enum =
                       {"markdown", "html"}
            /\ \A i \in 2..Len(log) : log[i].event = "comment"

C14_Witness ==
    \E c \in Conns :
        /\ conn[c].state = "closed" /\ Len(conn[c].log) = 1 + MaxPings
        /\ conn[c].log[1].event = "tools" /\ conn[c].log[2].event = "comment"


\* C15: every id in the index has its file on disk, holding all the bytes
\* of its put; a failed or unfinished put has no entry.
C15_EntriesPersisted ==
    /\ \A id \in DOMAIN files :
        /\ files[id].path \in DOMAIN disk
        /\ \E p \in puts : p.id = id /\ disk[files[id].path] = p.bytes
    /\ \A r \in Reqs :
        (req[r].pc \in {"fetch", "body"} \/ req[r].fault # "") =>
            \A p \in puts : p.by # r

C15_Witness ==
    \E id \in DOMAIN files : \E r \in Reqs :
        /\ req[r].fault = "write"
        /\ \E f \in DOMAIN disk : f # files[id].path /\ disk[f] # req[r].buf

\* C16: a put belongs to an invocation whose backend call has ended with
\* success and whose body was read; a link belongs to an invocation whose
\* put is complete, and in the step that sends it its id is in the index
\* with the bytes on disk; an invocation still waiting has neither.
C16_OrderState ==
    \A r \in Reqs :
        /\ \A p \in puts :
            p.by = r =>
                /\ req[r].upstream >= 200 /\ req[r].upstream <= 299
                /\ req[r].buf = p.bytes
                /\ req[r].pc = "done"
        /\ req[r].link.made =>
            \E p \in puts : p.by = r /\ p.id = req[r].link.id
        /\ req[r].pc \in {"new", "fetch", "body"} =>
            /\ ~req[r].link.made
            /\ \A p \in puts : p.by # r

C16_OrderStep ==
    \A r \in Reqs :
        (req'[r].link.made /\ ~req[r].link.made) =>
            /\ req[r].pc = "body"
            /\ req'[r].link.id \in DOMAIN files'
            /\ disk'[files'[req'[r].link.id].path] = req'[r].buf

C16_Ordering == []C16_OrderState /\ [][C16_OrderStep]_vars

C16_Witness ==
    \E r, s \in Reqs :
        /\ req[r].kind = "invoke" /\ Succeeded(req[r])
        /\ req[r].link.id \in DOMAIN files
        /\ req[s].pc = "body" /\ req[s].upstream = 200

\* C17: the outbound requests never outnumber the invocations that passed
\* validation; a step issues at most one, for a request that has just
\* arrived; a request that has left the fetch never returns to it.
C17_CallsState == backendCalls <= Cardinality(PassedValidation)

C17_CallsStep ==
    /\ backendCalls' # backendCalls =>
        /\ backendCalls' = backendCalls + 1
        /\ \E r \in Reqs : req[r].pc = "new" /\ req'[r].pc = "fetch"
    /\ \A r \in Reqs :
        req'[r].pc = "fetch" => req[r].pc \in {"new", "fetch"}

C17_NoRetry == []C17_CallsState /\ [][C17_CallsStep]_vars

C17_Witness ==
    \E r, s \in Reqs :
        /\ req[r].fault = "fetch" /\ req[r].pc = "done"
        /\ req[s].upstream = 503 /\ req[s].pc = "done"
        /\ backendCalls = 2

\* C18: an invocation that is waiting for the backend, or for the body
\* of its answer, is never left without a response by the end of the
\* process.
C18_NoInvocationStranded ==
    crashed => \A r \in DOMAIN req : req[r].pc \notin {"fetch", "body"}

\* C18, as the claim has it: every invocation that reached the backend
\* call ends with a response.
C18_EveryInvocationEnds ==
    \A r \in LiveReqs :
        (req[r].pc \in {"fetch", "body"}) ~> (req[r].pc = "done")

\* C18, of the running process: every invocation that reached the backend
\* call ends with a response unless the process dies first, and a response
\* once sent stays the one response.
C18_ResponseStep ==
    \A r \in DOMAIN req :
        req[r].pc = "done" => req'[r] = req[r]

C18_EndsUnlessCrashed ==
    /\ \A r \in LiveReqs :
        (req[r].pc \in {"fetch", "body"}) ~> (req[r].pc = "done" \/ crashed)
    /\ [][C18_ResponseStep]_vars

\* C19: the bytes of a put that are on disk have their entry in the index,
\* so that the reaper comes to them.
C19_NoOrphanBytes ==
    \A p \in puts : PathOf(p.id) \in DOMAIN disk => p.id \in DOMAIN files

\* The ids the runs of SpecLive can give out.
LiveIds == {fileId(ExtOf("pdf"), u, t * Quantum) : u \in UUIDs, t \in 0..MaxTime}

\* C19, as the claim has it: an entry past its retention is removed, index
\* entry and bytes, while the process runs.
C19_EventuallyDestroyed ==
    \A id \in LiveIds :
        (id \in DOMAIN files /\ now - files[id].t > RETENTION)
            ~> (crashed \/ (id \notin DOMAIN files /\ PathOf(id) \notin DOMAIN disk))

\* C19, of the index alone: an entry past its retention leaves the index
\* while the process runs, an id that left never returns, and only a put
\* and the reaper change the index.
C19_IndexStep ==
    /\ \A id \in DOMAIN files' \ DOMAIN files :
        /\ id \notin {p.id : p \in puts}
        /\ \E r \in DOMAIN req : req[r].pc = "body" /\ req'[r].link.id = id
    /\ DOMAIN files \ DOMAIN files' # {} =>
        /\ reaperDue' # reaperDue
        /\ DOMAIN files \ DOMAIN files' = Expired(now)
    /\ \A id \in DOMAIN files \cap DOMAIN files' : files'[id] = files[id]

C19_IndexEntryRemoved ==
    /\ \A id \in LiveIds :
        (id \in DOMAIN files /\ now - files[id].t > RETENTION)
            ~> (crashed \/ id \notin DOMAIN files)
    /\ [][C19_IndexStep]_vars

\* C20: no two puts have the same id; a put inserts an id that was never
\* in the index before, so it replaces no entry.
C20_IdsState ==
    \A p, q \in puts : p.id = q.id => p = q

C20_IdsStep ==
    \A id \in DOMAIN files' :
        (id \notin DOMAIN files \/ files'[id] # files[id]) =>
            /\ id \notin {p.id : p \in puts}
            /\ id \notin DOMAIN files

C20_UniqueIds == []C20_IdsState /\ [][C20_IdsStep]_vars

C20_Witness ==
    \E p, q \in puts :
        /\ p.by # q.by /\ p.t = q.t /\ p.mime = q.mime
        /\ p.id # q.id
        /\ {p.id, q.id} \subseteq DOMAIN files

====
